---- MODULE Spec2Model ----
(***************************************************************************)
(* Span tracking of the generated parser, as emitted by the span-builder   *)
(* stage (src/llparse/compiler/stage/span-builder.ts).                     *)
(*                                                                         *)
(* The stage emits instructions; the model is the run-time behaviour of    *)
(* those instructions, one action per emitted basic block.  A span         *)
(* callback is foreign code, so a block that calls one is split at the     *)
(* call: the state in which the callback runs is a state of the model.     *)
(* Positions are input pointers (TYPE_INPUT); Null is the null pointer.    *)
(***************************************************************************)
EXTENDS Integers, Sequences, FiniteSets, TLC

VARIABLES
  concurrency,  \* colors.concurrency: the colors, each a sequence of codes
  state,        \* the parser-instance state: span fields and shared fields
  pc,           \* the control point of the generated code
  idx,          \* the color the prologue / epilogue is at
  pos,          \* posArg(fn)
  endPos,       \* endPosArg(fn)
  site,         \* the span-end site that is executing: its code and target
  regs,         \* SSA values live in the executing fragment: start, cb, call
  ret,          \* what the enclosing function returned
  flushes,      \* history: the calls the epilogue made during this invocation
  loads,        \* history: loads of a callback field during this invocation
  open,         \* history: per color, the code of the open span, or NoCode
  entry,        \* history: while the prologue runs, the state at its top
  track,        \* history: per color, where the open span begins in this
                \*   invocation and how often its callback was called in it
  lastFail,     \* history: code and position of the last failed callback
  prev          \* history: the callback failure that ended the previous
                \*   invocation: a failed span-end until the color's next
                \*   span starts, a failed flush until its span is ended

vars == <<concurrency, state, pc, idx, pos, endPos, site, regs, ret,
          flushes, loads, open, entry, track, lastFail, prev>>

----------------------------------------------------------------------------
(* Bounds of the model *)

MaxBase == 2      \* buffers begin at addresses 1..MaxBase
MaxLen == 1       \* a buffer holds 0..MaxLen bytes
MaxErr == 2       \* callbacks return 0..MaxErr

----------------------------------------------------------------------------
(* Values *)

Null == 0
NoCode == 0
Codes == {1, 2, 3}
ErrorCodes == 0 .. MaxErr
Targets == {1, 2}
SpanCallbackError == "Span callback error"

Partitions ==
  { << <<1>>, <<2, 3>> >>,
    << <<1, 2>>, <<3>> >>,
    << <<1, 2, 3>> >> }

NoRet == [kind |-> "none", val |-> 0]
RetOutputNull == [kind |-> "output", val |-> Null]
RetCode(c) == [kind |-> "code", val |-> c]

NoSite == [code |-> NoCode, target |-> 0]
NoTrack == [from |-> Null, calls |-> 0]
NoFail == [code |-> 0, pos |-> Null]
NoPrev == [kind |-> "none", color |-> 0]
NoRegs == [start |-> Null, cb |-> NoCode, end |-> Null, call |-> 0]

----------------------------------------------------------------------------
(* The color allocator's result *)

Colors == 1 .. Len(concurrency)

Members(list) == {list[k] : k \in 1 .. Len(list)}

ColorOf(code) == CHOOSE i \in Colors : code \in Members(concurrency[i])

HasCallbackField(conc, i) == Len(conc[i]) # 1

----------------------------------------------------------------------------
(* Field layout and the emitted stores *)

startDecl(index) ==
  [type |-> "TYPE_INPUT", prefix |-> "SPAN_START_PREFIX",
   index |-> index, val |-> Null]

cbDecl(index) ==
  [type |-> "callbackType", prefix |-> "SPAN_CB_PREFIX",
   index |-> index, val |-> NoCode]

declareFieldsAlways(conc) ==
  LET decl[i \in 0 .. Len(conc)] ==
        IF i = 0
          THEN << >>
          ELSE decl[i - 1] \o <<startDecl(i), cbDecl(i)>>
  IN  decl[Len(conc)]

\* the declareField calls of buildFields, in order (colors count from 1)
declareFields(conc) ==
  LET decl[i \in 0 .. Len(conc)] ==
        IF i = 0
          THEN << >>
          ELSE decl[i - 1] \o (IF Len(conc[i]) = 1
                                 THEN <<startDecl(i)>>
                                 ELSE <<startDecl(i), cbDecl(i)>>)
  IN  decl[Len(conc)]

\* the span fields of a parser instance, by color
buildFields(conc) ==
  LET decls == declareFields(conc)
      Declared(prefix) ==
        {decls[k].index : k \in {j \in DOMAIN decls :
                                   decls[j].prefix = prefix}}
  IN  [ start    |-> [i \in Declared("SPAN_START_PREFIX") |-> Null],
        callback |-> [i \in Declared("SPAN_CB_PREFIX") |-> NoCode] ]

SharedFields ==
  [error |-> 0, reason |-> "", error_pos |-> Null, current |-> 1]

InitState(conc) ==
  [ start     |-> buildFields(conc).start,
    callback  |-> buildFields(conc).callback,
    error     |-> SharedFields.error,
    reason    |-> SharedFields.reason,
    error_pos |-> SharedFields.error_pos,
    current   |-> SharedFields.current ]

buildErrorNoCode(s, p, code) ==
  [s EXCEPT !.reason = SpanCallbackError, !.error_pos = p]

buildErrorNoPos(s, p, code) ==
  [s EXCEPT !.error = code, !.reason = SpanCallbackError]

buildError(s, p, code) ==
  [s EXCEPT !.error = code, !.reason = SpanCallbackError, !.error_pos = p]

----------------------------------------------------------------------------
(* Span start: stores emitted by buildSpanStart *)

buildSpanStartNoPosition(s, code, p) ==
  LET index == ColorOf(code)
  IN  IF Len(concurrency[index]) # 1
        THEN [s EXCEPT !.callback[index] = code]
        ELSE s

buildSpanStartFewMembers(s, code, p) ==
  LET index == ColorOf(code)
      s1 == [s EXCEPT !.start[index] = p]
  IN  IF Len(concurrency[index]) > 2
        THEN [s1 EXCEPT !.callback[index] = code]
        ELSE s1

buildSpanStart(s, code, p) ==
  LET index == ColorOf(code)
      s1 == [s EXCEPT !.start[index] = p]
  IN  IF Len(concurrency[index]) # 1
        THEN [s1 EXCEPT !.callback[index] = code]
        ELSE s1

----------------------------------------------------------------------------
(* Span end: the fragments emitted by buildSpanEnd *)

spanEndCallFirstMember(s, code, p) ==
  [cb |-> concurrency[ColorOf(code)][1],
   start |-> s.start[ColorOf(code)], end |-> p]

\* the call's arguments: the callback of the code, the loaded start, posArg
spanEndCall(s, code, p) ==
  [cb |-> code, start |-> s.start[ColorOf(code)], end |-> p]

spanEndResetMissing(s, code) ==
  s

\* "...and reset"
spanEndReset(s, code) ==
  [s EXCEPT !.start[ColorOf(code)] = Null]

spanEndErrorNoTarget(s, p, call, target) ==
  buildError(s, p, call)

\* the error block once updateResumptionTarget(target) has completed it
spanEndError(s, p, call, target) ==
  [buildError(s, p, call) EXCEPT !.current = target]

----------------------------------------------------------------------------
(* Epilogue: the fragments emitted by buildEpilogue for color i *)

epilogueLoadsCallbackAlways(s, i) ==
  Len(concurrency[i]) # 1

\* the callback field is loaded in block present_i only
epilogueLoadsCallback(s, i) ==
  s.start[i] # Null /\ Len(concurrency[i]) # 1

epilogueCallbackFirst(s, i) ==
  concurrency[i][1]

epilogueCallbackLast(s, i) ==
  concurrency[i][Len(concurrency[i])]

epilogueCallback(s, i) ==
  IF Len(concurrency[i]) = 1
    THEN concurrency[i][1]
    ELSE s.callback[i]

epilogueCallNoStart(s, i, endp) ==
  [cb |-> epilogueCallback(s, i), start |-> endp, end |-> endp]

epilogueCall(s, i, endp) ==
  [cb |-> epilogueCallback(s, i), start |-> s.start[i], end |-> endp]

epiloguePresentResets(s, i) ==
  [s EXCEPT !.start[i] = Null]

\* block present_i stores into no span field: the span stays open
epiloguePresent(s, i) ==
  s

epilogueError(s, endp, call) ==
  buildError(s, endp, call)

----------------------------------------------------------------------------
(* What ending a span does, by either way, when the callback returns e *)

\* an explicit span-end of `code` at position p
SpanEndOutcome(s, code, p, e, target) ==
  [ call  |-> spanEndCall(s, code, p),
    state |-> IF e = 0
                THEN spanEndReset(s, code)
                ELSE spanEndError(spanEndReset(s, code), p, e, target),
    ret   |-> IF e = 0 THEN NoRet ELSE RetOutputNull ]

\* the epilogue's flush of color i at the end of the buffer
FlushOutcome(s, i, endp, e) ==
  [ call  |-> epilogueCall(s, i, endp),
    state |-> IF e = 0
                THEN epiloguePresent(s, i)
                ELSE epilogueError(epiloguePresent(s, i), endp, e),
    ret   |-> IF e = 0 THEN NoRet ELSE RetCode(e) ]

----------------------------------------------------------------------------
(* Prologue: the restart_i block *)

prologueRestartStale(s, i, p) ==
  s

prologueRestart(s, i, p) ==
  [s EXCEPT !.start[i] = p]

----------------------------------------------------------------------------
(* Initial state: a parser instance of a compiled parser, not yet invoked *)

Init ==
  /\ concurrency \in Partitions
  /\ state = InitState(concurrency)
  /\ pc = "idle"
  /\ idx = 1
  /\ pos = 1
  /\ endPos = 1
  /\ site = NoSite
  /\ regs = NoRegs
  /\ ret = NoRet
  /\ flushes = << >>
  /\ loads = {}
  /\ open = [i \in 1 .. Len(concurrency) |-> NoCode]
  /\ entry = state
  /\ track = [i \in 1 .. Len(concurrency) |-> NoTrack]
  /\ lastFail = NoFail
  /\ prev = NoPrev

----------------------------------------------------------------------------
(* The embedder and the state machine around the span fragments *)

\* the embedder calls the parser's entry point with a fresh buffer
Invoke(base, len) ==
  /\ pc \in {"idle", "returned"}
  /\ pc' = "prologue"
  /\ idx' = 1
  /\ pos' = base
  /\ endPos' = base + len
  /\ site' = NoSite
  /\ regs' = NoRegs
  /\ ret' = NoRet
  /\ flushes' = << >>
  /\ loads' = {}
  /\ entry' = state
  /\ track' = [c \in Colors |->
                 [from |-> IF open[c] # NoCode THEN base ELSE Null,
                  calls |-> 0]]
  /\ prev' = IF pc = "returned" /\ regs.call # 0
               THEN IF site # NoSite
                      THEN [kind |-> "end", color |-> ColorOf(site.code)]
                      ELSE [kind |-> "flush", color |-> idx]
               ELSE NoPrev
  /\ UNCHANGED <<concurrency, state, open,
                 lastFail>>

\* the state machine body starts at the control point the prologue returns
EnterBody ==
  /\ pc = "prologue"
  /\ idx = Len(concurrency) + 1
  /\ pc' = "body"
  /\ entry' = InitState(concurrency)
  /\ UNCHANGED <<concurrency, state, idx, pos, endPos, site, regs, ret,
                 flushes, loads, open,
                 track, lastFail, prev>>

\* the state machine consumes one byte
Advance ==
  /\ pc = "body"
  /\ pos < endPos
  /\ pos' = pos + 1
  /\ UNCHANGED <<concurrency, state, pc, idx, endPos, site, regs, ret,
                 flushes, loads, open, entry,
                 track, lastFail, prev>>

\* input is exhausted: control reaches the per-call exit point
ExitBody ==
  /\ pc = "body"
  /\ pos = endPos
  /\ pc' = "epilogue"
  /\ idx' = 1
  /\ UNCHANGED <<concurrency, state, pos, endPos, site, regs, ret,
                 flushes, loads, open, entry,
                 track, lastFail, prev>>

\* the entry point returns from the control point the epilogue returns
Return ==
  /\ pc = "epilogue"
  /\ idx = Len(concurrency) + 1
  /\ pc' = "returned"
  /\ ret' = RetCode(0)
  /\ UNCHANGED <<concurrency, state, idx, pos, endPos, site, regs,
                 flushes, loads, open, entry,
                 track, lastFail, prev>>

----------------------------------------------------------------------------
(* The emitted fragments *)

\* a span of `code` opens at the current position
SpanStart(code) ==
  /\ pc = "body"
  /\ open[ColorOf(code)] = NoCode
  /\ state' = buildSpanStart(state, code, pos)
  /\ open' = [open EXCEPT ![ColorOf(code)] = code]
  /\ track' = [track EXCEPT ![ColorOf(code)] = [from |-> pos, calls |-> 0]]
  /\ prev' = IF prev.kind = "end" /\ prev.color = ColorOf(code)
               THEN NoPrev
               ELSE prev
  /\ UNCHANGED <<concurrency, pc, idx, pos, endPos, site, regs, ret,
                 flushes, loads, entry,
                 lastFail>>

\* span end, up to the call: load, reset, call the callback
SpanEndCall(code, target) ==
  /\ pc = "body"
  /\ open[ColorOf(code)] = code
  /\ regs' = [start |-> spanEndCall(state, code, pos).start,
              cb |-> spanEndCall(state, code, pos).cb,
              end |-> spanEndCall(state, code, pos).end, call |-> 0]
  /\ state' = spanEndReset(state, code)
  /\ site' = [code |-> code, target |-> target]
  /\ open' = [open EXCEPT ![ColorOf(code)] = NoCode]
  /\ pc' = "span_cb"
  /\ track' = [track EXCEPT ![ColorOf(code)].calls = @ + 1]
  /\ UNCHANGED <<concurrency, idx, pos, endPos, ret, flushes, loads, entry,
                 lastFail, prev>>

\* the callback returns; branch to no_error (likely) or error (unlikely)
SpanEndReturn(e) ==
  /\ pc = "span_cb"
  /\ regs' = [regs EXCEPT !.call = e]
  /\ pc' = IF e = 0 THEN "span_ok" ELSE "span_error"
  /\ lastFail' = IF e # 0 THEN [code |-> e, pos |-> pos] ELSE lastFail
  /\ UNCHANGED <<concurrency, state, idx, pos, endPos, site, ret,
                 flushes, loads, open, entry,
                 track, prev>>

\* block no_error is the control point handed back: the body goes on
SpanEndContinue ==
  /\ pc = "span_ok"
  /\ pc' = "body"
  /\ regs' = NoRegs
  /\ site' = NoSite
  /\ track' = [track EXCEPT ![ColorOf(site.code)] = NoTrack]
  /\ prev' = IF prev.kind = "flush" /\ prev.color = ColorOf(site.code)
               THEN NoPrev
               ELSE prev
  /\ UNCHANGED <<concurrency, state, idx, pos, endPos, ret,
                 flushes, loads, open, entry,
                 lastFail>>

\* the error block: error record, resumption target, return null
SpanEndError ==
  /\ pc = "span_error"
  /\ state' = spanEndError(state, pos, regs.call, site.target)
  /\ ret' = RetOutputNull
  /\ pc' = "returned"
  /\ UNCHANGED <<concurrency, idx, pos, endPos, site, regs,
                 flushes, loads, open, entry,
                 track, lastFail, prev>>

PrologueStepNoJump ==
  /\ pc = "prologue"
  /\ idx \in Colors
  /\ state.start[idx] = Null
  /\ idx' = idx + 1
  /\ UNCHANGED <<concurrency, state, pc, pos, endPos, site, regs, ret,
                 flushes, loads, open, entry, track, lastFail, prev>>

\* prologue, color idx: empty, or restart and jump to empty
PrologueStep ==
  /\ pc = "prologue"
  /\ idx \in Colors
  /\ state' = IF state.start[idx] = Null
                THEN state
                ELSE prologueRestart(state, idx, pos)
  /\ idx' = idx + 1
  /\ UNCHANGED <<concurrency, pc, pos, endPos, site, regs, ret,
                 flushes, loads, open, entry,
                 track, lastFail, prev>>

\* epilogue, color idx: empty, or present up to the call of the callback
EpilogueCheck ==
  /\ pc = "epilogue"
  /\ idx \in Colors
  /\ loads' = IF epilogueLoadsCallback(state, idx)
                THEN loads \cup {[color |-> idx, start |-> state.start[idx]]}
                ELSE loads
  /\ IF state.start[idx] = Null
       THEN /\ idx' = idx + 1
            /\ UNCHANGED <<pc, regs, flushes>>
       ELSE /\ regs' = [start |-> epilogueCall(state, idx, endPos).start,
                        cb |-> epilogueCall(state, idx, endPos).cb,
                        end |-> epilogueCall(state, idx, endPos).end,
                        call |-> 0]
            /\ flushes' = Append(flushes,
                            [color |-> idx,
                             cb |-> epilogueCall(state, idx, endPos).cb,
                             start |-> epilogueCall(state, idx, endPos).start,
                             end |-> epilogueCall(state, idx, endPos).end])
            /\ pc' = "flush_cb"
            /\ UNCHANGED idx
  /\ state' = IF state.start[idx] = Null
                THEN state
                ELSE epiloguePresent(state, idx)
  /\ track' = IF state.start[idx] = Null
                THEN track
                ELSE [track EXCEPT ![idx].calls = @ + 1]
  /\ UNCHANGED <<concurrency, pos, endPos, site, ret, open, entry,
                 lastFail, prev>>

\* the flush callback returns; branch to no_error (next color) or error
EpilogueReturn(e) ==
  /\ pc = "flush_cb"
  /\ regs' = [regs EXCEPT !.call = e]
  /\ pc' = IF e = 0 THEN "flush_ok" ELSE "flush_error"
  /\ lastFail' = IF e # 0 THEN [code |-> e, pos |-> endPos] ELSE lastFail
  /\ UNCHANGED <<concurrency, state, idx, pos, endPos, site, ret,
                 flushes, loads, open, entry,
                 track, prev>>

EpilogueContinueSameColor ==
  /\ pc = "flush_ok"
  /\ pc' = "epilogue"
  /\ regs' = NoRegs
  /\ UNCHANGED <<concurrency, state, idx, pos, endPos, site, ret,
                 flushes, loads, open, entry,
                 track, lastFail, prev>>

\* block no_error jumps to empty: the next color's check
EpilogueContinue ==
  /\ pc = "flush_ok"
  /\ pc' = "epilogue"
  /\ idx' = idx + 1
  /\ regs' = NoRegs
  /\ UNCHANGED <<concurrency, state, pos, endPos, site, ret,
                 flushes, loads, open, entry,
                 track, lastFail, prev>>

EpilogueErrorFallsThrough ==
  /\ pc = "flush_error"
  /\ state' = epilogueError(state, endPos, regs.call)
  /\ pc' = "epilogue"
  /\ idx' = idx + 1
  /\ UNCHANGED <<concurrency, pos, endPos, site, regs, ret,
                 flushes, loads, open, entry,
                 track, lastFail, prev>>

\* the error block: error record, return the callback's code
EpilogueError ==
  /\ pc = "flush_error"
  /\ state' = epilogueError(state, endPos, regs.call)
  /\ ret' = RetCode(regs.call)
  /\ pc' = "returned"
  /\ UNCHANGED <<concurrency, idx, pos, endPos, site, regs,
                 flushes, loads, open, entry,
                 track, lastFail, prev>>

----------------------------------------------------------------------------

Next ==
  \/ \E base \in 1 .. MaxBase, len \in 0 .. MaxLen : Invoke(base, len)
  \/ PrologueStep
  \/ EnterBody
  \/ Advance
  \/ \E code \in Codes : SpanStart(code)
  \/ \E code \in Codes, target \in Targets : SpanEndCall(code, target)
  \/ \E e \in ErrorCodes : SpanEndReturn(e)
  \/ SpanEndContinue
  \/ SpanEndError
  \/ ExitBody
  \/ EpilogueCheck
  \/ \E e \in ErrorCodes : EpilogueReturn(e)
  \/ EpilogueContinue
  \/ EpilogueError
  \/ Return

Spec == Init /\ [][Next]_vars

TypeOK ==
  /\ concurrency \in Partitions
  /\ pc \in {"idle", "prologue", "body", "span_cb", "span_ok", "span_error",
             "epilogue", "flush_cb", "flush_ok", "flush_error", "returned"}
  /\ idx \in 1 .. Len(concurrency) + 1
  /\ pos \in 1 .. MaxBase + MaxLen
  /\ endPos \in pos .. MaxBase + MaxLen
  /\ state.error \in ErrorCodes
  /\ state.current \in Targets
  /\ \A i \in Colors : state.start[i] \in 0 .. MaxBase + MaxLen

----------------------------------------------------------------------------
(* How an invocation ended *)

Failed == pc = "returned" /\ regs.call # 0
SpanEndFailed == Failed /\ site # NoSite
FlushFailed == Failed /\ site = NoSite
Flushed == {flushes[k].color : k \in 1 .. Len(flushes)}

----------------------------------------------------------------------------
(* Claims *)

\* C1: an explicit span-end of a code of color C resets C's start to null
\* before the callback is invoked: start is null while the callback runs,
\* in the no_error block right after it (success), in the error block and
\* after the error return (failure).
C1_SpanEndResetsStart ==
  (pc \in {"span_cb", "span_ok", "span_error"} \/ SpanEndFailed)
    => state.start[ColorOf(site.code)] = Null

C1_Witness ==
  pc = "span_ok" /\ regs.start # Null /\ regs.call = 0

\* C2: while and after the prologue runs, every color it has passed whose
\* start was non-null at the top of the invocation holds the invocation's
\* start position, every other color holds what it held at the top (null
\* stays null), no callback has been invoked, and the callback fields, the
\* error record and _current are as they were at the top.
C2_PrologueRebases ==
  pc = "prologue" =>
    /\ \A i \in Colors :
         state.start[i] = IF i < idx /\ entry.start[i] # Null
                            THEN pos
                            ELSE entry.start[i]
    /\ state.callback = entry.callback
    /\ state.error = entry.error
    /\ state.reason = entry.reason
    /\ state.error_pos = entry.error_pos
    /\ state.current = entry.current
    /\ flushes = << >>
    /\ regs = NoRegs

C2_Witness ==
  /\ pc = "prologue"
  /\ idx = Len(concurrency) + 1
  /\ \E i \in Colors : entry.start[i] # Null /\ entry.start[i] # pos
  /\ \E j \in Colors : entry.start[j] = Null

\* C3: when the flush callback of a color returns zero, the color's start
\* (and callback, if it has the field) is non-null and is what it was when
\* the callback was called; it is still so when the invocation returns, so
\* the next prologue finds the span open.
C3_EpiloguePreservesOpenSpans ==
  /\ pc = "flush_ok" =>
       /\ regs.call = 0
       /\ regs.start # Null
       /\ state.start[idx] = regs.start
       /\ HasCallbackField(concurrency, idx) =>
            state.callback[idx] = regs.cb /\ regs.cb # NoCode
  /\ (pc = "returned" /\ ~SpanEndFailed) =>
       \A k \in 1 .. Len(flushes) :
         /\ state.start[flushes[k].color] = flushes[k].start
         /\ flushes[k].start # Null
         /\ HasCallbackField(concurrency, flushes[k].color) =>
              state.callback[flushes[k].color] = flushes[k].cb

C3_Witness ==
  /\ pc = "returned"
  /\ ret = RetCode(0)
  /\ \E k \in 1 .. Len(flushes) :
       HasCallbackField(concurrency, flushes[k].color)

\* C4: after a span callback returned a non-zero code E, error = E, reason
\* is the fixed message and error_pos is the position of detection: the
\* current position for an explicit span-end, the end of the buffer for an
\* epilogue flush.
C4_ErrorRecord ==
  /\ Failed => /\ state.error = regs.call
               /\ state.reason = SpanCallbackError
  /\ SpanEndFailed => state.error_pos = pos
  /\ FlushFailed => state.error_pos = endPos

C4_Witness ==
  SpanEndFailed /\ pos < endPos /\ state.error_pos = pos

C5_ResumptionState ==
  /\ SpanEndFailed => state.current = site.target /\ ret = RetOutputNull
  /\ pc = "span_error" => regs.call # 0 /\ ret = NoRet
  /\ pc = "span_ok" => regs.call = 0 /\ ret = NoRet

C5_ResumptionStep ==
  /\ pc = "span_error" => pc' = "returned"
  /\ pc \in {"span_cb", "span_ok"} =>
       /\ state'.current = state.current
       /\ ret' = NoRet
       /\ pc' \in {"span_ok", "span_error", "body"}
  /\ pc = "span_ok" => pc' = "body"

\* C5: on a span-end callback failure the error block stores the
\* resumption target into _current and returns the null output value, and
\* does nothing else next; on success _current is not written and nothing
\* is returned.
C5_ResumptionTarget ==
  []C5_ResumptionState /\ [][C5_ResumptionStep]_vars

C5_Witness ==
  SpanEndFailed /\ site.target = 2 /\ state.current = 2

C6_FlushFailState ==
  FlushFailed =>
    /\ ret = RetCode(regs.call)
    /\ ret.val # 0
    /\ ret.val = state.error
    /\ flushes # << >>
    /\ flushes[Len(flushes)].color = idx
    /\ \A k \in 1 .. Len(flushes) : flushes[k].color <= idx

C6_FlushFailStep ==
  /\ pc = "flush_error" => pc' = "returned"
  /\ (pc = "flush_cb" /\ pc' = "flush_error") \/ pc = "flush_error" =>
       /\ state'.current = state.current
       /\ state'.start = state.start
       /\ state'.callback = state.callback
       /\ flushes' = flushes

\* C6: when the flush callback of color i returns non-zero E, the function
\* returns E (non-zero, equal to the error field) from the error block,
\* _current and every start and callback field are left as they were, and
\* no color after i has had a callback invoked in the invocation.
C6_EpilogueFailureIsTerminal ==
  []C6_FlushFailState /\ [][C6_FlushFailStep]_vars

C6_Witness ==
  /\ FlushFailed
  /\ idx < Len(concurrency)
  /\ state.start[idx + 1] # Null

\* C7 (as claimed): when the invocation has run its epilogue and returned,
\* every color with an open span has had that span's callback invoked by
\* the epilogue with (stored start, end of buffer).
C7_EveryOpenSpanFlushed ==
  (pc = "returned" /\ ~SpanEndFailed) =>
    \A c \in Colors :
      state.start[c] # Null =>
        \E k \in 1 .. Len(flushes) :
          flushes[k] = [color |-> c, cb |-> open[c],
                        start |-> state.start[c], end |-> endPos]

\* C7 (amended): the epilogue invokes the callback of every open span it
\* reaches, with (stored start, end of buffer): every color when no flush
\* callback fails, and otherwise the colors up to and including the first
\* one whose callback returns non-zero; later colors are not flushed.
C7_OpenSpansFlushedUpToFailure ==
  /\ (pc = "returned" /\ ~SpanEndFailed) =>
       \A c \in Colors :
         (state.start[c] # Null /\ (FlushFailed => c <= idx)) =>
           \E k \in 1 .. Len(flushes) :
             flushes[k] = [color |-> c, cb |-> open[c],
                           start |-> state.start[c], end |-> endPos]
  /\ FlushFailed => \A c \in Colors : c > idx => c \notin Flushed

C7_Witness ==
  /\ pc = "returned"
  /\ ret = RetCode(0)
  /\ Len(flushes) = 2

\* C8 (as claimed): for the same open span, callback result and position,
\* an explicit span-end and an epilogue flush have the same outcome: the
\* same callback invocation, the same fields afterwards, the same return.
C8_EndAndFlushIdentical ==
  (pc = "body" /\ pos = endPos) =>
    \A c \in Colors, e \in ErrorCodes, target \in Targets :
      open[c] # NoCode =>
        SpanEndOutcome(state, open[c], pos, e, target)
          = FlushOutcome(state, c, endPos, e)

\* C8 (amended): for the same open span, callback result and position, an
\* explicit span-end and an epilogue flush invoke the same callback with
\* the same arguments and leave the same error record; they differ in the
\* rest: span-end clears start and on failure stores the resumption target
\* and returns the null output value, the flush leaves start and _current
\* as they are and on failure returns the callback's code.
C8_EndAndFlushSameCallAndRecord ==
  (pc = "body" /\ pos = endPos) =>
    \A c \in Colors, e \in ErrorCodes, target \in Targets :
      open[c] # NoCode =>
        LET end == SpanEndOutcome(state, open[c], pos, e, target)
            flush == FlushOutcome(state, c, endPos, e)
        IN  /\ end.call = flush.call
            /\ end.state.error = flush.state.error
            /\ end.state.reason = flush.state.reason
            /\ end.state.error_pos = flush.state.error_pos
            /\ end.state.callback = flush.state.callback
            /\ end.state.start[c] = Null
            /\ flush.state.start[c] = state.start[c]
            /\ flush.state.start[c] # Null
            /\ flush.state.current = state.current
            /\ e # 0 => /\ end.state.current = target
                        /\ end.ret = RetOutputNull
                        /\ flush.ret = RetCode(e)
            /\ e = 0 => end.ret = NoRet /\ flush.ret = NoRet

C8_Witness ==
  /\ pc = "body"
  /\ pos = endPos
  /\ \E c \in Colors :
       /\ HasCallbackField(concurrency, c)
       /\ open[c] # NoCode
       /\ open[c] # concurrency[c][1]
       /\ state.start[c] < pos

\* C9 (invariant I2): in every reachable state a color's start is non-null
\* if and only if a span of that color is open.
C9_StartIffOpen ==
  \A c \in Colors : (state.start[c] # Null) <=> (open[c] # NoCode)

C9_Witness ==
  /\ pc = "span_ok"
  /\ \E c \in Colors :
       /\ c # ColorOf(site.code)
       /\ open[c] # NoCode
       /\ state.start[c] # Null
       /\ state.start[ColorOf(site.code)] = Null

\* C10 (invariant I3): for every color with more than one member, callback
\* is non-null whenever start is non-null, and every load of a callback
\* field is made with the color's start non-null.
C10_CallbackSetWhileOpen ==
  /\ \A c \in Colors :
       (HasCallbackField(concurrency, c) /\ state.start[c] # Null) =>
         state.callback[c] # Null
  /\ \A l \in loads : l.start # Null

C10_Witness ==
  /\ pc = "flush_cb"
  /\ \E l \in loads : l.color = idx /\ regs.cb = state.callback[idx]

\* C11 (as claimed): no step takes a color's start from a non-null value to
\* another non-null value.
C11_NeverNonNullToNonNull ==
  [][\A c \in Colors :
       (state.start[c] # Null /\ state'.start[c] # Null)
         => state'.start[c] = state.start[c]]_vars

C11_StartStep ==
  \A c \in Colors :
    /\ (state.start[c] = Null /\ state'.start[c] # Null) =>
         /\ pc = "body" /\ pc' = "body"
         /\ open[c] = NoCode /\ open'[c] # NoCode
         /\ state'.start[c] = pos
    /\ (state.start[c] # Null /\ state'.start[c] = Null) =>
         /\ pc = "body" /\ pc' = "span_cb"
         /\ c = ColorOf(site'.code)
    /\ (state.start[c] # Null /\ state'.start[c] # Null
          /\ state'.start[c] # state.start[c]) =>
         /\ pc = "prologue" /\ pc' = "prologue"
         /\ c = idx
         /\ state'.start[c] = pos

\* C11 (amended): a color's start goes from null to non-null only at a
\* span-start, from non-null to null only at an explicit span-end, and from
\* a non-null value to another non-null value only in the prologue's restart
\* block, which replaces it by the invocation's start position; every other
\* step, a flush included, leaves it as it is.
C11_StartTransitions ==
  [][C11_StartStep]_vars

C11_Witness ==
  /\ pc = "flush_ok"
  /\ prev = [kind |-> "flush", color |-> idx]
  /\ state.start[idx] # Null

C13_SpanStartStep ==
  \A c \in Colors :
    (open[c] = NoCode /\ open'[c] # NoCode) =>
      /\ state'.start = [state.start EXCEPT ![c] = pos]
      /\ state'.callback =
           IF Len(concurrency[c]) > 1
             THEN [state.callback EXCEPT ![c] = open'[c]]
             ELSE state.callback
      /\ state'.error = state.error
      /\ state'.reason = state.reason
      /\ state'.error_pos = state.error_pos
      /\ state'.current = state.current
      /\ pc' = "body"
      /\ ret' = NoRet

\* C13: a span-start of a code of color C at position p sets C's start to p
\* and, if C has more than one member, C's callback to the code's callback;
\* it writes no callback field if C has one member; the fields of every
\* other color, the error record and _current are unchanged, and control
\* continues in the body (there is no error path).
C13_SpanStartEffect ==
  [][C13_SpanStartStep]_vars

C13_Witness ==
  /\ pc = "body"
  /\ Len(concurrency) = 2
  /\ Len(concurrency[1]) = 2
  /\ open = <<2, 3>>
  /\ state.start = <<pos - 1, pos>>
  /\ state.callback[1] = 2

\* C15: every call the epilogue makes is for a color whose start is
\* non-null, to the single member's callback if the color has one member
\* and otherwise to the value of the color's callback field, which is the
\* callback of the code whose span-start came last, with (stored start, end
\* of buffer); for a color whose start is null the epilogue calls nothing.
C15_EpilogueCallbackSelection ==
  /\ \A k \in 1 .. Len(flushes) :
       LET f == flushes[k]
           c == f.color
       IN  /\ f.cb = IF Len(concurrency[c]) = 1
                       THEN concurrency[c][1]
                       ELSE state.callback[c]
           /\ f.cb = open[c]
           /\ f.start = state.start[c]
           /\ f.start # Null
           /\ f.end = endPos
  /\ \A c \in Colors : state.start[c] = Null => c \notin Flushed

C15_Witness ==
  /\ pc = "returned"
  /\ Len(flushes) = 2
  /\ \E k \in 1 .. 2 : Len(concurrency[flushes[k].color]) = 1
  /\ \E k \in 1 .. 2 :
       /\ Len(concurrency[flushes[k].color]) = 2
       /\ flushes[k].cb = concurrency[flushes[k].color][2]

\* C16: for every color partition the planner declares exactly one start
\* field per color and exactly one callback field per color with more than
\* one member, none for a single-member color, each with initial value
\* null and named by prefix and color index; a parser instance holds those
\* fields and no others, all null before the first invocation.
C16_StorageLayout ==
  LET decls == declareFields(concurrency)
      Count(prefix, c) ==
        Cardinality({k \in DOMAIN decls :
                       decls[k].prefix = prefix /\ decls[k].index = c})
  IN  /\ \A c \in Colors :
           /\ Count("SPAN_START_PREFIX", c) = 1
           /\ Count("SPAN_CB_PREFIX", c)
                = IF Len(concurrency[c]) > 1 THEN 1 ELSE 0
      /\ \A k \in DOMAIN decls :
           /\ decls[k].index \in Colors
           /\ decls[k].val = Null
           /\ decls[k].prefix \in {"SPAN_START_PREFIX", "SPAN_CB_PREFIX"}
      /\ DOMAIN state.start
           = {decls[k].index : k \in {j \in DOMAIN decls :
                                 decls[j].prefix = "SPAN_START_PREFIX"}}
      /\ DOMAIN state.callback
           = {decls[k].index : k \in {j \in DOMAIN decls :
                                 decls[j].prefix = "SPAN_CB_PREFIX"}}
      /\ pc = "idle" =>
           /\ \A c \in DOMAIN state.start : state.start[c] = Null
           /\ \A c \in DOMAIN state.callback : state.callback[c] = NoCode

C16_Witness ==
  /\ pc = "idle"
  /\ Len(concurrency) = 2
  /\ Len(declareFields(concurrency)) = 3
  /\ DOMAIN state.callback = {2}

InEpilogue == pc \in {"epilogue", "flush_cb", "flush_ok", "flush_error"}

C17_OrderState ==
  /\ \A j, k \in 1 .. Len(flushes) :
       j < k => flushes[j].color < flushes[k].color
  /\ pc \in {"flush_cb", "flush_ok", "flush_error"} =>
       /\ idx \in Colors
       /\ flushes[Len(flushes)].color = idx
  /\ pc = "epilogue" => \A c \in Flushed : c < idx

C17_OrderStep ==
  /\ (pc = "prologue" /\ pc' = "prologue") => idx' = idx + 1
  /\ (pc # "prologue" /\ pc' = "prologue") =>
       pc \in {"idle", "returned"} /\ idx' = 1
  /\ (pc = "prologue" /\ pc' # "prologue") =>
       pc' = "body" /\ idx = Len(concurrency) + 1
  /\ (~InEpilogue /\ InEpilogue') => pc = "body" /\ idx' = 1
  /\ (InEpilogue /\ InEpilogue') =>
       \/ idx' = idx /\ pc # "flush_ok"
       \/ idx' = idx + 1 /\ pc \in {"epilogue", "flush_ok"}
                         /\ pc' = "epilogue"
  /\ (InEpilogue /\ ~InEpilogue') => pc' = "returned"
  /\ Len(flushes') > Len(flushes) =>
       /\ pc = "epilogue"
       /\ flushes' = Append(flushes, flushes'[Len(flushes')])
       /\ flushes'[Len(flushes')].color = idx

\* C17: within one invocation the prologue examines the colors one by one
\* in ascending index order starting at the first, the epilogue does the
\* same and its calls are made in strictly ascending color order, each
\* color at most once; the epilogue is entered only from the body, which is
\* entered only when the prologue has passed every color.
C17_ColorIndexOrder ==
  []C17_OrderState /\ [][C17_OrderStep]_vars

C17_Witness ==
  /\ pc = "epilogue"
  /\ idx = 3
  /\ Len(flushes) = 2
  /\ flushes[1].color = 1
  /\ flushes[2].color = 2

\* The generated code runs to completion once entered: every block of the
\* prologue and the epilogue that is reached is executed, and a callback
\* that has been called returns.
FairSpec ==
  /\ Spec
  /\ WF_vars(PrologueStep)
  /\ WF_vars(EpilogueCheck)
  /\ WF_vars(\E e \in ErrorCodes : EpilogueReturn(e))
  /\ WF_vars(EpilogueContinue)
  /\ WF_vars(EpilogueError)

PrologueDone == pc = "prologue" /\ idx = Len(concurrency) + 1
EpilogueDone == pc = "epilogue" /\ idx = Len(concurrency) + 1

\* C18: whatever the fields hold, the prologue, once entered, reaches its
\* final control point, and each of its steps passes exactly one color,
\* the next one; the epilogue, once entered, reaches its final control
\* point or returns from an error block; neither loops nor gets stuck.
C18_LinearThreading ==
  /\ (pc = "prologue") ~> PrologueDone
  /\ (pc = "epilogue" /\ idx = 1) ~> (EpilogueDone \/ FlushFailed)
  /\ [][(pc = "prologue" /\ pc' = "prologue") => idx' = idx + 1]_vars
  /\ [](pc = "prologue" => idx \in 1 .. Len(concurrency) + 1)

C18_Witness ==
  /\ PrologueDone
  /\ \E i, j \in Colors : /\ entry.start[i] = Null
                          /\ entry.start[j] # Null
                          /\ state.start[j] = pos

----------------------------------------------------------------------------
\* C12: a span that stays open across invocations is delivered in pieces:
\* its callback is called once in every invocation during which it is
\* open, by the epilogue with (where the span begins in this invocation,
\* end of buffer) and by the closing span-end with (where the span begins
\* in this invocation, current position), where a span begins at its
\* span-start in the opening invocation and at the invocation's start
\* position in every later one; a flush leaves start non-null.
C12_MultiBufferDelivery ==
  /\ \A c \in Colors :
       /\ track[c].calls <= 1
       /\ open[c] # NoCode => track[c].from # Null
       /\ (open[c] # NoCode /\ pc \in {"body", "epilogue"})
            => state.start[c] = track[c].from
  /\ \A k \in 1 .. Len(flushes) :
       /\ flushes[k].cb = open[flushes[k].color]
       /\ flushes[k].start = track[flushes[k].color].from
       /\ flushes[k].end = endPos
       /\ track[flushes[k].color].calls = 1
       /\ state.start[flushes[k].color] = flushes[k].start
  /\ pc \in {"span_cb", "span_ok"}
       => /\ regs.cb = site.code
          /\ regs.start = track[ColorOf(site.code)].from
          /\ regs.start # Null
          /\ regs.end = pos
          /\ track[ColorOf(site.code)].calls = 1
  /\ (pc = "returned" /\ ret = RetCode(0))
       => \A c \in Colors :
            open[c] # NoCode => c \in Flushed /\ track[c].calls = 1

\* a span that an earlier invocation opened and flushed without failure
\* is rebased by this invocation's prologue to another position
C12_Witness ==
  \E c \in Colors :
    /\ PrologueDone
    /\ prev = NoPrev
    /\ open[c] # NoCode
    /\ entry.start[c] # Null
    /\ entry.start[c] # pos
    /\ state.start[c] = pos
    /\ track[c] = [from |-> pos, calls |-> 0]

----------------------------------------------------------------------------
\* C14: an explicit span-end calls the callback of the span that was
\* opened, once, with (the start stored at span-start or at the last
\* rebase, current position); from the call on start is null, while a
\* multi-member color's callback field keeps the ended span's callback,
\* and no block loads that field until a span-start has overwritten it.
C14_SpanEndCallback ==
  /\ pc \in {"span_cb", "span_ok", "span_error"}
       => LET c == ColorOf(site.code)
          IN  /\ regs.cb = site.code
              /\ regs.start = track[c].from
              /\ regs.start # Null
              /\ regs.end = pos
              /\ track[c].calls = 1
              /\ state.start[c] = Null
              /\ open[c] = NoCode
              /\ HasCallbackField(concurrency, c)
                   => state.callback[c] = site.code
  /\ \A l \in loads : /\ l.start # Null
                      /\ open[l.color] # NoCode
                      /\ state.callback[l.color] = open[l.color]

\* the second member of a two-member color was started and is ended
C14_Witness ==
  /\ pc = "span_ok"
  /\ Len(concurrency[ColorOf(site.code)]) > 1
  /\ site.code = concurrency[ColorOf(site.code)][2]
  /\ regs.cb = site.code
  /\ regs.start < regs.end
  /\ state.callback[ColorOf(site.code)] = site.code

----------------------------------------------------------------------------
ErrorRecord(s) == <<s.error, s.reason, s.error_pos>>

C19_RecordState ==
  pc \notin {"span_error", "flush_error"}
    => ErrorRecord(state) =
         IF lastFail = NoFail
           THEN ErrorRecord(InitState(concurrency))
           ELSE <<lastFail.code, SpanCallbackError, lastFail.pos>>

C19_RecordStep ==
  [][ErrorRecord(state') # ErrorRecord(state)
       => /\ pc \in {"span_error", "flush_error"}
          /\ ErrorRecord(state') = <<regs.call, SpanCallbackError,
                                     IF pc = "span_error" THEN pos
                                                          ELSE endPos>>]_vars

----------------------------------------------------------------------------
\* the failure that ended the previous invocation, by kind and color
AfterEndFailure(c) == prev = [kind |-> "end", color |-> c]
AfterFlushFailure(c) == prev = [kind |-> "flush", color |-> c]

\* C20: a failed span-end leaves its span closed (start null): in the
\* next invocation the prologue does not rebase that color, the epilogue
\* does not flush it and no callback is called for it, as long as no new
\* span of the color starts. A failed flush leaves its span open (start
\* non-null, unchanged): the next invocation's prologue rebases it to the
\* invocation's start position, and the span is then ended by a span-end
\* with that start or flushed again when the invocation completes.
C20_RetryAsymmetry ==
  /\ SpanEndFailed => /\ state.start[ColorOf(site.code)] = Null
                      /\ open[ColorOf(site.code)] = NoCode
  /\ FlushFailed => /\ state.start[idx] = regs.start
                    /\ regs.start # Null
                    /\ open[idx] # NoCode
  /\ \A c \in Colors :
       /\ AfterEndFailure(c)
            => /\ state.start[c] = Null
               /\ pc = "prologue" => entry.start[c] = Null
               /\ c \notin Flushed
               /\ track[c].calls = 0
               /\ pc \in {"span_cb", "span_ok", "span_error"}
                    => ColorOf(site.code) # c
       /\ AfterFlushFailure(c)
            => /\ pc = "prologue"
                    => /\ entry.start[c] # Null
                       /\ state.start[c] = IF idx > c THEN pos
                                                      ELSE entry.start[c]
               /\ open[c] = NoCode
                    => site # NoSite /\ ColorOf(site.code) = c
               /\ pc \in {"body", "epilogue", "flush_cb", "flush_ok"}
                    => state.start[c] = track[c].from
               /\ (pc \in {"span_cb", "span_ok"} /\ ColorOf(site.code) = c)
                    => regs.start = track[c].from /\ state.start[c] = Null
               /\ (pc = "returned" /\ ret = RetCode(0))
                    => /\ c \in Flushed
                       /\ track[c].calls = 1
                       /\ state.start[c] = track[c].from

\* retried after a failed flush: the span was rebased to another position
\* and this invocation has flushed it again, successfully
C20_Witness ==
  \E c \in Colors :
    /\ AfterFlushFailure(c)
    /\ pc = "returned"
    /\ ret = RetCode(0)
    /\ c \in Flushed
    /\ state.error_pos # state.start[c]

\* retried after a failed span-end: the invocation completes, the color
\* untouched, while another color's open span is flushed
C20_WitnessEnd ==
  \E c \in Colors :
    /\ AfterEndFailure(c)
    /\ pc = "returned"
    /\ ret = RetCode(0)
    /\ Flushed # {}
    /\ state.error_pos < endPos

====
